---------------------------- MODULE Spec2Model ----------------------------
(***************************************************************************)
(* Smart Health Reminder: the rule engine (ai_engine.py), the SQLite       *)
(* layer (database.py) and the request handlers that drive them (app.py).  *)
(*                                                                         *)
(* Representation.                                                         *)
(*   - A table is a sequence of rows; a row's AUTOINCREMENT id is its      *)
(*     index.  Rows are never removed (the code only soft-deletes).        *)
(*   - A clock string "HH:MM" is the number HH*100+MM ("06:30" is 630,     *)
(*     "24:15" is 2415).  For two-digit fields the order of the numbers    *)
(*     is the lexicographic order of the strings.                          *)
(*   - A message body is the tuple <<language, template, arg, arg>> that   *)
(*     get_voice_message formats.                                          *)
(*   - The clock counts whole days; every request of one day carries the   *)
(*     same timestamp.                                                     *)
(*   - Columns no rule reads (gender, duration, medicine priority,         *)
(*     from_ocr, created_at, resolved) are left out of the rows, and so is *)
(*     the prescriptions table, which is written and never read.           *)
(*   - A text is a sequence of lines and a line a sequence of words; what  *)
(*     the substring tests and patterns of the parser find in a word is    *)
(*     given by tables over the words the model uses.                      *)
(***************************************************************************)
EXTENDS Integers, Sequences, FiniteSets, TLC

VARIABLES users, medicines, reminders, activity_logs, health_scores,
          hydration_logs, caregiver_alerts, today, workers, last

vars == <<users, medicines, reminders, activity_logs, health_scores,
          hydration_logs, caregiver_alerts, today, workers, last>>

tables == <<users, medicines, reminders, activity_logs, health_scores,
            hydration_logs, caregiver_alerts>>

-----------------------------------------------------------------------------
(* Bounds of the model *)

MaxUsers == 2
MaxMeds == 2
MaxRows == 36
MaxLogs == 3
MaxScoreLogs == 2
MaxCareLogs == 4
MaxDay == 8
MaxAlerts == 2
MaxKnownLines == 11
MaxHour == 24
MaxOtherLines == 3

UserIds == 1..MaxUsers

-----------------------------------------------------------------------------
(* Clock strings *)

Fmt(h, m) == h * 100 + m
Hour(t) == t \div 100
Minute(t) == t % 100
Max(a, b) == IF a >= b THEN a ELSE b
Min(a, b) == IF a <= b THEN a ELSE b

\* (base + timedelta(hours=k)).strftime("%H:%M")
PlusHours(t, k) == Fmt((Hour(t) + k) % 24, Minute(t))

\* the time 30 minutes before t, an hour borrowed where the minutes run out
PrepSleep_borrow(t) ==
    LET m == (Hour(t) * 60 + Minute(t) + 1410) % 1440
    IN  Fmt(m \div 60, m % 60)

\* datetime.now().replace(hour=sh, minute=sm).replace(minute=max(0, sm-30))
PrepSleep(t) == Fmt(Hour(t), Max(0, Minute(t) - 30))

-----------------------------------------------------------------------------
(* Rule catalog and message templates *)

CONDITION_KEYS ==
    <<"diabetes", "blood pressure", "heart disease", "asthma", "thyroid",
      "obesity", "anxiety", "general">>

CONDITION_RULES(key) ==
    CASE key = "diabetes" ->
           [exercise |-> <<"30-min brisk walking", "Light yoga", "Post-meal 10-min walk">>,
            diet |-> <<"Avoid sugar & refined carbs", "Eat every 3-4 hrs", "High-fiber foods">>,
            alerts |-> <<"Monitor blood sugar before meals", "Carry glucose tablets">>]
      [] key = "blood pressure" ->
           [exercise |-> <<"30-min walking", "Breathing exercises", "Swimming">>,
            diet |-> <<"Low-sodium diet", "DASH diet foods", "Reduce caffeine">>,
            alerts |-> <<"Measure BP morning & evening", "Avoid stress">>]
      [] key = "heart disease" ->
           [exercise |-> <<"Low-intensity walking", "Gentle stretching", "Supervised cardio">>,
            diet |-> <<"Heart-healthy omega-3 foods", "Low-fat diet", "No trans fats">>,
            alerts |-> <<"Keep nitroglycerin handy", "Avoid heavy lifting">>]
      [] key = "asthma" ->
           [exercise |-> <<"Swimming", "Light indoor yoga", "Avoid cold-air running">>,
            diet |-> <<"Anti-inflammatory foods", "Avoid food allergens", "Stay hydrated">>,
            alerts |-> <<"Carry inhaler always", "Avoid smoke & dust">>]
      [] key = "thyroid" ->
           [exercise |-> <<"Cardio 30 mins daily", "Strength training 3x/week">>,
            diet |-> <<"Iodine-rich foods", "Avoid soy excess", "Selenium-rich foods">>,
            alerts |-> <<"Take medicine on empty stomach", "Regular TSH tests">>]
      [] key = "obesity" ->
           [exercise |-> <<"45-min cardio daily", "Strength training", "Swimming">>,
            diet |-> <<"Calorie deficit diet", "High protein meals", "No late-night eating">>,
            alerts |-> <<"Track daily calorie intake", "Weigh in weekly">>]
      [] key = "anxiety" ->
           [exercise |-> <<"Yoga & meditation", "Nature walks", "Deep breathing">>,
            diet |-> <<"Reduce caffeine", "Magnesium-rich foods", "Balanced meals">>,
            alerts |-> <<"Practice mindfulness daily", "Maintain sleep schedule">>]
      [] OTHER ->
           [exercise |-> <<"30-min moderate exercise", "Stretching">>,
            diet |-> <<"Balanced nutrition", "Plenty of vegetables">>,
            alerts |-> <<"Stay hydrated", "Regular health checkups">>]

AGE_RULES(group) ==
    CASE group = "young" -> [hydration_glasses |-> 10]
      [] group = "adult" -> [hydration_glasses |-> 8]
      [] OTHER -> [hydration_glasses |-> 7]

MULTILANG == {"en", "kn", "te", "hi"}

get_age_group(age) ==
    IF age < 30 THEN "young" ELSE IF age < 60 THEN "adult" ELSE "senior"

\* `key in condition.lower()` for the condition texts the model registers
KeyIn(key, condition) ==
    CASE condition = "Diabetes" -> key = "diabetes"
      [] condition = "asthma, anxiety" -> key \in {"asthma", "anxiety"}
      [] condition = "general" -> key = "general"
      [] OTHER -> FALSE

RECURSIVE FirstKey(_, _)
FirstKey(keys, condition) ==
    IF keys = <<>> THEN "general"
    ELSE IF KeyIn(Head(keys), condition) THEN Head(keys)
    ELSE FirstKey(Tail(keys), condition)

get_condition_key(condition) ==
    IF condition = "" THEN "general" ELSE FirstKey(CONDITION_KEYS, condition)

get_voice_message(lang, msg_type, a, b) ==
    <<IF lang \in MULTILANG THEN lang ELSE "en", msg_type, a, b>>

-----------------------------------------------------------------------------
(* database.py: reads *)

HasUser(us, uid) == uid \in DOMAIN us

\* get_medicines without the test of the active column
get_medicines_all(meds, uid) ==
    SelectSeq(meds, LAMBDA m : m.user_id = uid)

\* SELECT * FROM medicines WHERE user_id=? AND active=1 ORDER BY id
get_medicines(meds, uid) ==
    SelectSeq(meds, LAMBDA m : m.user_id = uid /\ m.active)

\* ids of SELECT * FROM reminders WHERE user_id=? AND active=1
get_reminders(rem, uid) ==
    {i \in DOMAIN rem : rem[i].user_id = uid /\ rem[i].active}

\* the columns add_reminder writes, read back from a row
Event(row) ==
    [user_id |-> row.user_id, type |-> row.type, title |-> row.title,
     body |-> row.body, scheduled |-> row.scheduled, priority |-> row.priority]

Range(s) == {s[i] : i \in DOMAIN s}

-----------------------------------------------------------------------------
(* ai_engine.py: generate_schedule *)

RECURSIVE SlotEvents(_, _, _, _)
SlotEvents(uid, lang, med, times) ==
    IF times = <<>> THEN <<>>
    ELSE <<[user_id |-> uid, type |-> "medicine", title |-> <<"Medicine", med.name>>,
            body |-> get_voice_message(lang, "medicine", med.name, med.dosage),
            scheduled |-> Head(times), priority |-> "HIGH"]>>
         \o SlotEvents(uid, lang, med, Tail(times))

RECURSIVE MedicineEvents(_, _, _)
MedicineEvents(uid, lang, meds) ==
    IF meds = <<>> THEN <<>>
    ELSE SlotEvents(uid, lang, Head(meds), Head(meds).times)
         \o MedicineEvents(uid, lang, Tail(meds))

hydration_times == <<800, 1000, 1200, 1400, 1600, 1800, 2000>>

WaterEvents(uid, lang, n) ==
    [i \in 1..n |->
        [user_id |-> uid, type |-> "water", title |-> <<"Hydration Check", "">>,
         body |-> get_voice_message(lang, "water", "", ""),
         scheduled |-> hydration_times[i], priority |-> "LOW"]]

TipEvents(uid, alerts) ==
    [i \in 1..Min(Len(alerts), 2) |->
        [user_id |-> uid, type |-> "health_tip", title |-> <<"Health Tip", "">>,
         body |-> <<"", "health_tip", alerts[i], "">>,
         scheduled |-> Fmt(9 + (i - 1) * 4, 0), priority |-> "LOW"]]

\* the list `schedule` in the order the code appends to it
Schedule(uid, user, meds) ==
    LET lang == user.language
        age == IF user.age = 0 THEN 30 ELSE user.age
        wake == user.wake_time
        rules == CONDITION_RULES(get_condition_key(user.condition))
        hydration == AGE_RULES(get_age_group(age)).hydration_glasses
        ev(type, title, body, at, prio) ==
            [user_id |-> uid, type |-> type, title |-> <<title, "">>, body |-> body,
             scheduled |-> at, priority |-> prio]
    IN  <<ev("wake", "Good Morning!", get_voice_message(lang, "wake", "", ""), wake, "HIGH")>>
        \o MedicineEvents(uid, lang, meds)
        \o <<ev("meal", "Breakfast Time",
                get_voice_message(lang, "meal", "Breakfast",
                    IF Len(rules.diet) > 0 THEN rules.diet[1] ELSE "Healthy breakfast"),
                PlusHours(wake, 1), "HIGH")>>
        \o WaterEvents(uid, lang, Min(hydration, 7))
        \o <<ev("exercise", "Exercise Time",
                get_voice_message(lang, "exercise",
                    IF Len(rules.exercise) > 0 THEN rules.exercise[1] ELSE "30-min walk", ""),
                PlusHours(wake, 2), "MEDIUM"),
             ev("meal", "Lunch Time",
                get_voice_message(lang, "meal", "Lunch",
                    IF Len(rules.diet) > 1 THEN rules.diet[2] ELSE "Balanced lunch"),
                1300, "MEDIUM"),
             ev("exercise", "Evening Activity",
                get_voice_message(lang, "exercise",
                    IF Len(rules.exercise) > 0 THEN rules.exercise[Len(rules.exercise)]
                    ELSE "Evening walk", ""),
                1700, "MEDIUM"),
             ev("meal", "Dinner Time",
                get_voice_message(lang, "meal", "Dinner", "Light & healthy meal"),
                1930, "MEDIUM")>>
        \o TipEvents(uid, rules.alerts)
        \o <<ev("sleep", "Sleep Reminder", get_voice_message(lang, "sleep", "", ""),
                PrepSleep(user.sleep_time), "MEDIUM")>>

\* sorted(schedule, key=lambda x: x["scheduled"]): a stable sort
RECURSIVE InsertSorted(_, _)
InsertSorted(s, e) ==
    IF s = <<>> THEN <<e>>
    ELSE IF Head(s).scheduled <= e.scheduled THEN <<Head(s)>> \o InsertSorted(Tail(s), e)
    ELSE <<e>> \o s

RECURSIVE SortByScheduled(_)
SortByScheduled(s) ==
    IF s = <<>> THEN <<>>
    ELSE InsertSorted(SortByScheduled(SubSeq(s, 1, Len(s) - 1)), s[Len(s)])

EventKey(e) == <<e.scheduled, e.type>>

\* the seen/unique loop: the first item of every (scheduled, type) is kept
RECURSIVE UniqueFrom(_, _)
UniqueFrom(s, seen) ==
    IF s = <<>> THEN <<>>
    ELSE IF EventKey(Head(s)) \in seen THEN UniqueFrom(Tail(s), seen)
    ELSE <<Head(s)>> \o UniqueFrom(Tail(s), seen \cup {EventKey(Head(s))})

Unique(schedule) == UniqueFrom(SortByScheduled(schedule), {})


-----------------------------------------------------------------------------
(* database.py: writes *)

\* UPDATE reminders SET active=0 WHERE id=?
db_delete_reminder(rem, rid) ==
    [i \in DOMAIN rem |-> IF i = rid THEN [rem[i] EXCEPT !.active = FALSE] ELSE rem[i]]

\* INSERT INTO reminders (...): the active column defaults to 1
db_add_reminder(rem, e) ==
    Append(rem, [user_id |-> e.user_id, type |-> e.type, title |-> e.title,
                 body |-> e.body, scheduled |-> e.scheduled, priority |-> e.priority,
                 active |-> TRUE])

\* INSERT INTO medicines (...): the active column defaults to 1
db_add_medicine(meds, d) ==
    Append(meds, [user_id |-> d.user_id, name |-> d.name, dosage |-> d.dosage,
                  times |-> d.times, active |-> TRUE])

\* UPDATE medicines SET active=0 WHERE id=?
db_delete_medicine(meds, mid) ==
    [i \in DOMAIN meds |-> IF i = mid THEN [meds[i] EXCEPT !.active = FALSE] ELSE meds[i]]

\* UPDATE users SET k=:k, ... WHERE id=:uid, for the keys k of d
db_update_user(us, uid, d) ==
    [i \in DOMAIN us |->
        IF i = uid
        THEN [f \in DOMAIN us[i] |-> IF f \in DOMAIN d THEN d[f] ELSE us[i][f]]
        ELSE us[i]]

-----------------------------------------------------------------------------
(* ai_engine.py: generate_schedule, on the tables *)

\* the delete loop left out: the old rows stay active
DeleteExisting_none(rem, uid) == rem

\* for r in existing: delete_reminder(r["id"])
DeleteExisting(rem, uid) ==
    LET existing == get_reminders(rem, uid)
    IN  [i \in DOMAIN rem |->
            IF i \in existing THEN [rem[i] EXCEPT !.active = FALSE] ELSE rem[i]]

\* for item in unique: add_reminder(item)
RECURSIVE SaveAll(_, _)
SaveAll(rem, items) ==
    IF items = <<>> THEN rem
    ELSE SaveAll(db_add_reminder(rem, Head(items)), Tail(items))

\* the list generate_schedule computes for an existing user
ScheduleOf(us, meds, uid) ==
    Unique(Schedule(uid, us[uid], get_medicines(meds, uid)))

\* generate_schedule without `if not user: return []`: the defaults of user.get stand in
generate_schedule_defaults(us, meds, rem, uid) ==
    LET user == IF HasUser(us, uid) THEN us[uid]
                ELSE [name |-> "", age |-> 30, condition |-> "general", wake_time |-> 630,
                      sleep_time |-> 2200, language |-> "en", caregiver |-> ""]
        unique == Unique(Schedule(uid, user, get_medicines(meds, uid)))
    IN  [rem |-> SaveAll(DeleteExisting(rem, uid), unique), ret |-> unique]

\* generate_schedule: the reminders table it leaves (rem) and the list it returns (ret)
generate_schedule(us, meds, rem, uid) ==
    IF ~HasUser(us, uid) THEN [rem |-> rem, ret |-> <<>>]
    ELSE LET unique == ScheduleOf(us, meds, uid)
         IN  [rem |-> SaveAll(DeleteExisting(rem, uid), unique), ret |-> unique]

-----------------------------------------------------------------------------
(* What the last request was and what it answered *)

NoScore == [score |-> 0, grade |-> "N/A", breakdown |-> {}]

Answer(op, uid) ==
    [op |-> op, uid |-> uid, rid |-> 0, ok |-> TRUE, flag |-> FALSE, schedule |-> <<>>,
     score |-> NoScore, suggestions |-> <<>>, text |-> <<>>, medicines |-> <<>>]

Idle == [w \in {} |-> 0]

-----------------------------------------------------------------------------
(* database.py: activity, scores, hydration, alerts *)

\* INSERT INTO activity_logs (...): logged_at and date default to now
db_log_activity(logs, uid, rid, rtype, action, now) ==
    Append(logs, [user_id |-> uid, reminder_id |-> rid, type |-> rtype,
                  action |-> action, logged_at |-> now, date |-> now])

\* SELECT * FROM activity_logs WHERE user_id=? AND date=date('now')
get_today_logs(logs, uid, now) ==
    SelectSeq(logs, LAMBDA l : l.user_id = uid /\ l.date = now)

\* get_skipped_count without the test of reminder_id
get_skipped_count_any(logs, uid, rid, now, days) ==
    Cardinality({i \in DOMAIN logs :
        /\ logs[i].user_id = uid
        /\ logs[i].action = "skipped"
        /\ logs[i].logged_at >= now - days})

\* SELECT COUNT(*) ... AND action='skipped' AND logged_at>=datetime('now','-7 days')
get_skipped_count(logs, uid, rid, now, days) ==
    Cardinality({i \in DOMAIN logs :
        /\ logs[i].user_id = uid
        /\ logs[i].reminder_id = rid
        /\ logs[i].action = "skipped"
        /\ logs[i].logged_at >= now - days})

\* a plain INSERT: the row in conflict stays
db_save_health_score_insert(scores, uid, score, breakdown, now) ==
    Append(scores, [user_id |-> uid, score |-> score, date |-> now, breakdown |-> breakdown])

\* INSERT OR REPLACE under UNIQUE(user_id, date): the row in conflict goes first
db_save_health_score(scores, uid, score, breakdown, now) ==
    Append(SelectSeq(scores, LAMBDA r : ~(r.user_id = uid /\ r.date = now)),
           [user_id |-> uid, score |-> score, date |-> now, breakdown |-> breakdown])

HydrationRows(hyd, uid, now) ==
    {i \in DOMAIN hyd : hyd[i].user_id = uid /\ hyd[i].date = now}

MinOf(S) == CHOOSE x \in S : \A y \in S : x <= y

\* fetchone of SELECT id,glasses ...: update that row, or insert one
db_log_hydration(hyd, uid, glasses, now) ==
    LET ex == HydrationRows(hyd, uid, now)
    IN  IF ex # {}
        THEN [i \in DOMAIN hyd |->
                IF i = MinOf(ex) THEN [hyd[i] EXCEPT !.glasses = hyd[i].glasses + glasses]
                ELSE hyd[i]]
        ELSE Append(hyd, [user_id |-> uid, glasses |-> glasses, date |-> now])

get_hydration_today(hyd, uid, now) ==
    LET ex == HydrationRows(hyd, uid, now)
    IN  IF ex # {} THEN hyd[MinOf(ex)].glasses ELSE 0

db_create_caregiver_alert(alerts, uid, msg) ==
    Append(alerts, [user_id |-> uid, message |-> msg])

-----------------------------------------------------------------------------
(* ai_engine.py: calculate_health_score *)

\* round(n/d, 0) for d > 0, ties to the even neighbour
RoundDiv(n, d) ==
    LET q == n \div d
        r == n - q * d
    IN  IF 2 * r < d THEN q
        ELSE IF 2 * r > d THEN q + 1
        ELSE IF q % 2 = 0 THEN q ELSE q + 1

\* sum(1 for l in logs if l["action"] == action)
CountAction(logs, action) == Cardinality({i \in DOMAIN logs : logs[i].action = action})

\* med_logs = [l for l in logs if l["type"] == "medicine"]
MedLogs(logs) == SelectSeq(logs, LAMBDA l : l.type = "medicine")

\* Scores and percentages are kept in tenths: 1000 is 100.0.
\* score = compliance*0.4 + hydration_score*0.2 + med_score*0.4, over the
\* common denominator total * max(med_total, 1)
ScoreTenths(completed, total, hydration, med_completed, med_total) ==
    LET mt == Max(med_total, 1)
        den == total * mt
        hyd == Min(25 * hydration, 200)
        med == IF med_total > 0 THEN 400 * med_completed * total ELSE 400 * den
        num == 400 * completed * mt + hyd * den + med
    IN  RoundDiv(Min(num, 1000 * den), den)

Grade(score) ==
    IF score >= 800 THEN "Excellent"
    ELSE IF score >= 600 THEN "Good"
    ELSE IF score >= 400 THEN "Needs Improvement"
    ELSE "Risk Alert"

\* the result calculate_health_score computes once there are reminders
ScoreResult(logs, rem, hyd, uid, now) ==
    LET today_logs == get_today_logs(logs, uid, now)
        active == get_reminders(rem, uid)
        hydration == get_hydration_today(hyd, uid, now)
        total == Cardinality(active)
        completed == CountAction(today_logs, "completed")
        skipped == CountAction(today_logs, "skipped")
        snoozed == CountAction(today_logs, "snoozed")
        med_completed == CountAction(MedLogs(today_logs), "completed")
        med_total == Cardinality({i \in active : rem[i].type = "medicine"})
        score == ScoreTenths(completed, total, hydration, med_completed, med_total)
        breakdown ==
            { <<"compliance_pct", RoundDiv(1000 * completed, Max(total, 1))>>,
              <<"hydration_glasses", hydration>>,
              <<"hydration_score", Min(125 * hydration, 1000)>>,
              <<"medicine_score",
                IF med_total > 0 THEN RoundDiv(1000 * med_completed, med_total) ELSE 1000>>,
              <<"completed", completed>>, <<"skipped", skipped>>,
              <<"snoozed", snoozed>>, <<"total_reminders", total>> }
    IN  [score |-> score, grade |-> Grade(score), breakdown |-> breakdown]

\* calculate_health_score with the save moved before the test of total
calculate_health_score_saves(logs, rem, hyd, scores, uid, now) ==
    IF get_reminders(rem, uid) = {}
    THEN [ret |-> NoScore, scores |-> db_save_health_score(scores, uid, 0, {}, now)]
    ELSE LET r == ScoreResult(logs, rem, hyd, uid, now)
         IN  [ret |-> r,
              scores |-> db_save_health_score(scores, uid, r.score, r.breakdown, now)]

\* calculate_health_score: what it returns (ret) and the score store it leaves
calculate_health_score(logs, rem, hyd, scores, uid, now) ==
    IF get_reminders(rem, uid) = {}
    THEN [ret |-> NoScore, scores |-> scores]
    ELSE LET r == ScoreResult(logs, rem, hyd, uid, now)
         IN  [ret |-> r,
              scores |-> db_save_health_score(scores, uid, r.score, r.breakdown, now)]

-----------------------------------------------------------------------------
(* ai_engine.py: run_adaptive_learning *)

SKIP_THRESHOLD == 3
SKIP_WINDOW_DAYS == 7

\* new_m = m + 30; new_h = h + new_m // 60; new_m = new_m % 60
SuggestedTime(t) ==
    LET new_m == Minute(t) + 30
    IN  Fmt(Hour(t) + new_m \div 60, new_m % 60)

\* the ids of a set of rows in the order of ORDER BY scheduled (rowid order among equals)
RECURSIVE OrderByScheduled(_, _)
OrderByScheduled(rem, ids) ==
    IF ids = {} THEN <<>>
    ELSE LET first == CHOOSE i \in ids : \A j \in ids :
                         \/ rem[i].scheduled < rem[j].scheduled
                         \/ rem[i].scheduled = rem[j].scheduled /\ i <= j
         IN  <<first>> \o OrderByScheduled(rem, ids \ {first})

RECURSIVE SuggestionsFor(_, _, _, _, _)
SuggestionsFor(rem, logs, uid, now, ids) ==
    IF ids = <<>> THEN <<>>
    ELSE LET rid == Head(ids)
             skipped == get_skipped_count(logs, uid, rid, now, SKIP_WINDOW_DAYS)
         IN  (IF skipped >= SKIP_THRESHOLD
              THEN <<[reminder_id |-> rid, title |-> rem[rid].title,
                      current_time |-> rem[rid].scheduled,
                      suggested_time |-> SuggestedTime(rem[rid].scheduled),
                      reason |-> skipped]>>
              ELSE <<>>)
             \o SuggestionsFor(rem, logs, uid, now, Tail(ids))

run_adaptive_learning(rem, logs, uid, now) ==
    SuggestionsFor(rem, logs, uid, now, OrderByScheduled(rem, get_reminders(rem, uid)))

-----------------------------------------------------------------------------
(* ai_engine.py: check_caregiver_alert *)

ALERT_THRESHOLD == 3

MissedToday(logs, uid, now) ==
    CountAction(MedLogs(get_today_logs(logs, uid, now)), "skipped")

\* the test without `user.get("caregiver")`
AlertDue_any_contact(logs, us, uid, now) ==
    /\ MissedToday(logs, uid, now) >= ALERT_THRESHOLD
    /\ HasUser(us, uid)

\* missed >= 3 and user and user.get("caregiver")
AlertDue(logs, us, uid, now) ==
    /\ MissedToday(logs, uid, now) >= ALERT_THRESHOLD
    /\ HasUser(us, uid)
    /\ us[uid].caregiver # ""

\* check_caregiver_alert that stays silent once the user has an alert of the day
check_caregiver_alert_once(logs, us, alerts, uid, now) ==
    IF /\ AlertDue(logs, us, uid, now)
       /\ ~\E k \in DOMAIN alerts : alerts[k].user_id = uid /\ alerts[k].message.date = now
    THEN [ret |-> TRUE,
          alerts |-> db_create_caregiver_alert(alerts, uid,
                        [name |-> us[uid].name, missed |-> MissedToday(logs, uid, now),
                         date |-> now])]
    ELSE [ret |-> FALSE, alerts |-> alerts]

\* check_caregiver_alert: what it returns (ret) and the alert store it leaves
check_caregiver_alert(logs, us, alerts, uid, now) ==
    IF AlertDue(logs, us, uid, now)
    THEN [ret |-> TRUE,
          alerts |-> db_create_caregiver_alert(alerts, uid,
                        [name |-> us[uid].name, missed |-> MissedToday(logs, uid, now),
                         date |-> now])]
    ELSE [ret |-> FALSE, alerts |-> alerts]

-----------------------------------------------------------------------------
(* ai_engine.py: parse_prescription_text *)

known_medicines ==
    <<"Metformin", "Glucophage", "Aspirin", "Paracetamol", "Atorvastatin",
      "Lisinopril", "Amlodipine", "Omeprazole", "Metoprolol", "Losartan",
      "Ramipril", "Cetirizine", "Pantoprazole", "Vitamin", "Calcium", "Iron",
      "Amoxicillin", "Ciprofloxacin", "Azithromycin", "Doxycycline",
      "Levothyroxine", "Insulin", "Glipizide", "Januvia", "Warfarin">>

\* the known names med with med.lower() in word.lower()
NamesIn(word) ==
    CASE word = "Metformin" -> {"Metformin"}
      [] word = "aspirin" -> {"Aspirin"}
      [] word = "Environment" -> {"Iron"}
      [] OTHER -> {}

\* med.lower() in line.lower()
Mentions(line, med) == \E i \in DOMAIN line : med \in NamesIn(line[i])

\* for med in known_medicines: if med.lower() in line.lower(): ... break
RECURSIVE FirstKnown(_, _)
FirstKnown(meds, line) ==
    IF meds = <<>> THEN <<>>
    ELSE IF Mentions(line, Head(meds)) THEN <<Head(meds)>>
    ELSE FirstKnown(Tail(meds), line)

\* the words (\d+\s*mg|\d+\s*ml|\d+\s*tablet|\d+\s*cap) matches
DosageWords == {"500mg", "5ml"}

\* dosage_match.group(0) if dosage_match else "1 tablet"
dosage_pattern(line) ==
    LET hits == {i \in DOMAIN line : line[i] \in DosageWords}
    IN  IF hits = {} THEN "1 tablet" ELSE line[MinOf(hits)]

\* time_keywords in the order of the dict, each with the times it sets
time_keywords ==
    << <<"morning", <<800>>>>, <<"afternoon", <<1300>>>>, <<"evening", <<1800>>>>,
       <<"night", <<2100>>>>, <<"twice", <<800, 2000>>>>, <<"thrice", <<800, 1400, 2000>>>>,
       <<"breakfast", <<800>>>>, <<"lunch", <<1300>>>>, <<"dinner", <<1930>>>>,
       <<"bedtime", <<2130>>>> >>

\* the keywords kw with kw in word.lower()
KeywordsIn(word) ==
    CASE word = "Tonight" -> {"night"}
      [] word = "twice" -> {"twice"}
      [] word = "morning" -> {"morning"}
      [] OTHER -> {}

\* for kw, t in time_keywords.items(): if kw in line.lower(): current_med["times"] = ...
RECURSIVE TimesOf(_, _, _)
TimesOf(kws, line, times) ==
    IF kws = <<>> THEN times
    ELSE TimesOf(Tail(kws), line,
                 IF \E i \in DOMAIN line : Head(kws)[1] \in KeywordsIn(line[i])
                 THEN Head(kws)[2] ELSE times)

\* what (\d+)\s*(day|week|month) finds in a word: the number and the unit
DurationIn(word) ==
    CASE word = "2weeks" -> <<2, "week">>
      [] word = "30days" -> <<30, "day">>
      [] OTHER -> <<>>

\* re.search over the line and the conversion to days
DurationOf(line) ==
    LET hits == {i \in DOMAIN line : DurationIn(line[i]) # <<>>}
        m == DurationIn(line[MinOf(hits)])
    IN  IF hits = {} THEN 0
        ELSE IF m[2] = "week" THEN m[1] * 7
        ELSE IF m[2] = "month" THEN m[1] * 30
        ELSE m[1]

\* the loop of the known-name pass: current_med is a list of at most one
RECURSIVE KnownPass(_, _, _)
KnownPass(lines, found, current_med) ==
    IF lines = <<>> THEN found \o current_med
    ELSE LET line == Head(lines)
             hit == FirstKnown(known_medicines, line)
             named == IF hit # <<>>
                      THEN <<[name |-> hit[1], dosage |-> dosage_pattern(line),
                              times |-> TimesOf(time_keywords, line, <<800>>),
                              duration |-> 7]>>
                      ELSE current_med
             dated == IF DurationOf(line) # 0 /\ named # <<>>
                      THEN <<[named[1] EXCEPT !.duration = DurationOf(line)]>>
                      ELSE named
         IN  IF line = <<>> THEN KnownPass(Tail(lines), found, current_med)
             ELSE KnownPass(Tail(lines),
                            IF hit # <<>> THEN found \o current_med ELSE found, dated)

\* w[0].isupper()
Capital(word) == word \in {"Metformin", "Environment", "Report", "Take", "Zyrtec",
                           "Tablet", "Tonight"}

\* len(w) > 4
LongWord(word) == word \notin {"Take", "for", "5ml"}

\* the inner loop of the fallback pass, from word i on: it stops at 5 candidates
RECURSIVE GenericWords(_, _, _)
GenericWords(line, i, found) ==
    IF i > Len(line) THEN found
    ELSE IF Capital(line[i]) /\ LongWord(line[i]) /\ i < Len(line)
    THEN LET more == Append(found, [name |-> line[i], dosage |-> dosage_pattern(line),
                                    times |-> <<800>>, duration |-> 7])
         IN  IF Len(more) >= 5 THEN more ELSE GenericWords(line, i + 1, more)
    ELSE GenericWords(line, i + 1, found)

\* the outer loop of the fallback pass
RECURSIVE GenericPass(_, _)
GenericPass(lines, found) ==
    IF lines = <<>> THEN found
    ELSE LET more == GenericWords(Head(lines), 1, found)
         IN  IF Len(more) >= 5 THEN more ELSE GenericPass(Tail(lines), more)

\* the candidates before the final slice
Candidates(text) ==
    LET known == KnownPass(text, <<>>, <<>>)
    IN  IF known = <<>> THEN GenericPass(text, <<>>) ELSE known

\* parse_prescription_text without the final slice
parse_prescription_text_uncapped(text) == Candidates(text)

\* return medicines[:10]
parse_prescription_text(text) ==
    SubSeq(Candidates(text), 1, Min(Len(Candidates(text)), 10))

-----------------------------------------------------------------------------
(* Inputs *)

Asha ==
    [name |-> "Asha", age |-> 65, condition |-> "Diabetes", wake_time |-> 630,
     sleep_time |-> 2215, language |-> "en", caregiver |-> "son@example.org"]

Ravi ==
    [name |-> "Ravi", age |-> 25, condition |-> "", wake_time |-> 1200,
     sleep_time |-> 2345, language |-> "xx", caregiver |-> ""]

Profiles == {Asha, Ravi}

Patches ==
    { [wake_time |-> 1500] }

Metformin == [name |-> "Metformin", dosage |-> "500mg", times |-> <<800, 830>>]

Aspirin == [name |-> "Aspirin", dosage |-> "1 tablet", times |-> <<800, 800, 2345>>]

MedicineInputs == {Metformin, Aspirin}

\* the reminders whose 30-minute shift the client posts back without a suggestion
ApplyFrom == {800}

\* the session's user id: any id may be set, also one that was never registered
SessionIds == 1..(MaxUsers + 1)

\* in the tracking scenarios user 1 is registered and user 2 is not
TrackSessions == {1, 2}

Actions == {"completed", "skipped", "snoozed"}

\* request.json.get("action", "completed"): the client may post any text
PostedActions == Actions \cup {"dismissed"}

Glasses == {8, -1}

ClockSteps == {7, 8}

\* the lines of the texts the OCR hands over
KnownLines ==
    << <<"Metformin", "500mg", "twice", "daily", "2weeks">>,
       <<"aspirin", "Tonight">>,
       <<"Environment", "Report">> >>

OtherLines ==
    { <<"Take", "Zyrtec", "Tablet", "daily">>, <<>>, <<"for", "30days">> }

\* n lines that mention a known medicine, taken in turn from line k on
KnownBlock(n, k) == [i \in 1..n |-> KnownLines[((i + k) % Len(KnownLines)) + 1]]

\* a block of lines with known names and a block of other lines, in either order
Texts ==
    UNION { { KnownBlock(n, k) \o [i \in 1..m |-> other],
              [i \in 1..m |-> other] \o KnownBlock(n, k) } :
            n \in 0..MaxKnownLines, k \in 1..Len(KnownLines), m \in 0..MaxOtherLines,
            other \in OtherLines }

-----------------------------------------------------------------------------
(* app.py: the request handlers, one request at a time *)

Init ==
    /\ users = <<>>
    /\ medicines = <<>>
    /\ reminders = <<>>
    /\ activity_logs = <<>>
    /\ health_scores = <<>>
    /\ hydration_logs = <<>>
    /\ caregiver_alerts = <<>>
    /\ today = 0
    /\ workers = Idle
    /\ last = Answer("init_db", 0)

\* what one call of generate_schedule does to the reminders table and answers
Regenerated(op, us, meds, uid, rid) ==
    LET g == generate_schedule(us, meds, reminders, uid)
    IN  /\ Len(reminders) <= MaxRows
        /\ reminders' = g.rem
        /\ last' = [Answer(op, uid) EXCEPT !.rid = rid, !.schedule = g.ret]

create_user(p) ==
    LET uid == Len(users) + 1
        us == Append(users, p)
    IN  /\ uid <= MaxUsers
        /\ users' = us
        /\ Regenerated("create_user", us, medicines, uid, 0)
        /\ UNCHANGED <<medicines, activity_logs, health_scores, hydration_logs,
                       caregiver_alerts, today, workers>>

update_user(uid, d) ==
    /\ HasUser(users, uid)
    /\ users' = db_update_user(users, uid, d)
    /\ last' = Answer("update_user", uid)
    /\ UNCHANGED <<medicines, reminders, activity_logs, health_scores, hydration_logs,
                   caregiver_alerts, today, workers>>

add_medicine(uid, d) ==
    LET meds == db_add_medicine(medicines,
                    [user_id |-> uid, name |-> d.name, dosage |-> d.dosage, times |-> d.times])
    IN  /\ HasUser(users, uid)
        /\ Len(medicines) < MaxMeds
        /\ medicines' = meds
        /\ Regenerated("add_medicine", users, meds, uid, Len(meds))
        /\ UNCHANGED <<users, activity_logs, health_scores, hydration_logs,
                       caregiver_alerts, today, workers>>

delete_medicine(uid, mid) ==
    LET meds == db_delete_medicine(medicines, mid)
    IN  /\ medicines' = meds
        /\ Regenerated("delete_medicine", users, meds, uid, mid)
        /\ UNCHANGED <<users, activity_logs, health_scores, hydration_logs,
                       caregiver_alerts, today, workers>>

generate_reminders(uid) ==
    /\ Regenerated("generate_reminders", users, medicines, uid, 0)
    /\ UNCHANGED <<users, medicines, activity_logs, health_scores, hydration_logs,
                   caregiver_alerts, today, workers>>

\* apply_suggestion that invalidates the reminder and inserts it anew at the new time
apply_suggestion_recreate(uid, rid, new_time) ==
    /\ reminders' = IF rid # 0 /\ new_time # 0
                    THEN db_add_reminder(db_delete_reminder(reminders, rid),
                                         [Event(reminders[rid]) EXCEPT !.scheduled = new_time])
                    ELSE reminders
    /\ last' = [Answer("apply_suggestion", uid) EXCEPT !.rid = rid, !.flag = TRUE]
    /\ UNCHANGED <<users, medicines, activity_logs, health_scores, hydration_logs,
                   caregiver_alerts, today, workers>>

\* apply_suggestion that also drops the skip records of the reminder
apply_suggestion_clears(uid, rid, new_time) ==
    /\ reminders' = IF rid # 0 /\ new_time # 0
                    THEN [i \in DOMAIN reminders |->
                            IF i = rid THEN [reminders[i] EXCEPT !.scheduled = new_time]
                            ELSE reminders[i]]
                    ELSE reminders
    /\ activity_logs' = SelectSeq(activity_logs,
                                  LAMBDA l : ~(l.reminder_id = rid /\ l.action = "skipped"))
    /\ last' = [Answer("apply_suggestion", uid) EXCEPT !.rid = rid, !.flag = TRUE]
    /\ UNCHANGED <<users, medicines, health_scores, hydration_logs,
                   caregiver_alerts, today, workers>>

\* UPDATE reminders SET scheduled=? WHERE id=?, when both values are given
apply_suggestion(uid, rid, new_time) ==
    /\ reminders' = IF rid # 0 /\ new_time # 0
                    THEN [i \in DOMAIN reminders |->
                            IF i = rid THEN [reminders[i] EXCEPT !.scheduled = new_time]
                            ELSE reminders[i]]
                    ELSE reminders
    /\ last' = [Answer("apply_suggestion", uid) EXCEPT !.rid = rid, !.flag = TRUE]
    /\ UNCHANGED <<users, medicines, activity_logs, health_scores, hydration_logs,
                   caregiver_alerts, today, workers>>

\* the reminders of a user the model's requests act on: the latest medicine
\* reminder, the wake reminder, and row 1, which is stale once a schedule is replaced
LastOfType(rem, uid, type) ==
    {i \in get_reminders(rem, uid) :
        /\ rem[i].type = type
        /\ \A j \in get_reminders(rem, uid) :
              rem[j].type = type =>
                 \/ rem[j].scheduled < rem[i].scheduled
                 \/ rem[j].scheduled = rem[i].scheduled /\ j <= i}

ActionTargets(rem, uid) ==
    LastOfType(rem, uid, "medicine") \cup LastOfType(rem, uid, "wake") \cup {1}

reminder_action(uid, rid, action) ==
    IF rid \notin get_reminders(reminders, uid)
    THEN /\ last' = [Answer("reminder_action", uid) EXCEPT !.rid = rid, !.ok = FALSE]
         /\ UNCHANGED <<users, medicines, reminders, activity_logs, health_scores,
                        hydration_logs, caregiver_alerts, today, workers>>
    ELSE LET logs == db_log_activity(activity_logs, uid, rid, reminders[rid].type,
                                     action, today)
             c == check_caregiver_alert(logs, users, caregiver_alerts, uid, today)
         IN  /\ Len(c.alerts) <= MaxAlerts
             /\ activity_logs' = logs
             /\ caregiver_alerts' = c.alerts
             /\ last' = [Answer("reminder_action", uid) EXCEPT !.rid = rid, !.flag = c.ret]
             /\ UNCHANGED <<users, medicines, reminders, health_scores, hydration_logs,
                            today, workers>>

\* a user id that is not registered fails the foreign key: nothing is written
log_hydration(uid, glasses) ==
    /\ HasUser(users, uid)
    /\ hydration_logs' = db_log_hydration(hydration_logs, uid, glasses, today)
    /\ activity_logs' = db_log_activity(activity_logs, uid, 0, "water", "completed", today)
    /\ last' = Answer("log_hydration", uid)
    /\ UNCHANGED <<users, medicines, reminders, health_scores, caregiver_alerts,
                   today, workers>>

health_score(uid) ==
    LET c == calculate_health_score(activity_logs, reminders, hydration_logs,
                                    health_scores, uid, today)
    IN  /\ health_scores' = c.scores
        /\ last' = [Answer("health_score", uid) EXCEPT !.score = c.ret]
        /\ UNCHANGED <<users, medicines, reminders, activity_logs, hydration_logs,
                       caregiver_alerts, today, workers>>

adaptive_suggestions(uid) ==
    /\ last' = [Answer("adaptive_suggestions", uid) EXCEPT
                    !.suggestions = run_adaptive_learning(reminders, activity_logs, uid, today)]
    /\ UNCHANGED <<users, medicines, reminders, activity_logs, health_scores,
                   hydration_logs, caregiver_alerts, today, workers>>

\* the direct call of check_caregiver_alert for one user
caregiver_check(uid) ==
    LET c == check_caregiver_alert(activity_logs, users, caregiver_alerts, uid, today)
    IN  /\ Len(c.alerts) <= MaxAlerts
        /\ caregiver_alerts' = c.alerts
        /\ last' = [Answer("check_caregiver_alert", uid) EXCEPT !.flag = c.ret]
        /\ UNCHANGED <<users, medicines, reminders, activity_logs, health_scores,
                       hydration_logs, today, workers>>

\* for u in db.list_users(): ai.check_caregiver_alert(u["id"])
RECURSIVE SweepAlerts(_, _)
SweepAlerts(alerts, uid) ==
    IF uid > Len(users) THEN alerts
    ELSE SweepAlerts(check_caregiver_alert(activity_logs, users, alerts, uid, today).alerts,
                     uid + 1)

check_reminder_compliance ==
    /\ Len(SweepAlerts(caregiver_alerts, 1)) <= MaxAlerts
    /\ caregiver_alerts' = SweepAlerts(caregiver_alerts, 1)
    /\ last' = Answer("check_reminder_compliance", 0)
    /\ UNCHANGED <<users, medicines, reminders, activity_logs, health_scores,
                   hydration_logs, today, workers>>

\* for u in db.list_users(): ai.calculate_health_score(u["id"])
RECURSIVE SweepScores(_, _)
SweepScores(scores, uid) ==
    IF uid > Len(users) THEN scores
    ELSE SweepScores(calculate_health_score(activity_logs, reminders, hydration_logs,
                                            scores, uid, today).scores,
                     uid + 1)

compute_daily_scores ==
    /\ health_scores' = SweepScores(health_scores, 1)
    /\ last' = Answer("compute_daily_scores", 0)
    /\ UNCHANGED <<users, medicines, reminders, activity_logs, hydration_logs,
                   caregiver_alerts, today, workers>>

\* for med in parsed_meds: db.add_medicine(...)
RECURSIVE AddParsed(_, _, _)
AddParsed(meds, uid, parsed) ==
    IF parsed = <<>> THEN meds
    ELSE AddParsed(db_add_medicine(meds, [user_id |-> uid, name |-> Head(parsed).name,
                                          dosage |-> Head(parsed).dosage,
                                          times |-> Head(parsed).times]),
                   uid, Tail(parsed))

\* the text is what the OCR read from the upload
ocr_prescription(uid, text) ==
    LET parsed == parse_prescription_text(text)
        meds == AddParsed(medicines, uid, parsed)
    IN  /\ HasUser(users, uid)
        /\ Len(reminders) <= MaxRows
        /\ medicines' = meds
        /\ reminders' = IF parsed # <<>>
                        THEN generate_schedule(users, meds, reminders, uid).rem
                        ELSE reminders
        /\ last' = [Answer("ocr_prescription", uid) EXCEPT
                        !.text = text, !.medicines = parsed]
        /\ UNCHANGED <<users, activity_logs, health_scores, hydration_logs,
                       caregiver_alerts, today, workers>>

\* days pass between two requests
advance_clock(d) ==
    /\ today + d <= MaxDay
    /\ today' = today + d
    /\ last' = Answer("advance_clock", 0)
    /\ UNCHANGED <<tables, workers>>

Next ==
    \/ \E p \in Profiles : create_user(p)
    \/ \E uid \in UserIds, d \in Patches : update_user(uid, d)
    \/ \E uid \in UserIds, d \in MedicineInputs : add_medicine(uid, d)
    \/ \E uid \in SessionIds, mid \in DOMAIN medicines : delete_medicine(uid, mid)
    \/ \E uid \in SessionIds : generate_reminders(uid)
    \/ \E uid \in UserIds : \E rid \in get_reminders(reminders, uid) :
          /\ reminders[rid].scheduled \in ApplyFrom
          /\ apply_suggestion(uid, rid, SuggestedTime(reminders[rid].scheduled))

Spec == Init /\ [][Next]_vars

-----------------------------------------------------------------------------
(* Tracking: one registered user with one medicine, then the requests that *)
(* log, score, suggest and escalate.                                       *)

Registered(p, d) ==
    LET us == <<p>>
        meds == db_add_medicine(<<>>,
                    [user_id |-> 1, name |-> d.name, dosage |-> d.dosage, times |-> d.times])
        first == generate_schedule(us, <<>>, <<>>, 1)
    IN  [users |-> us, medicines |-> meds,
         g |-> generate_schedule(us, meds, first.rem, 1)]

InitTrack(P, M) ==
    \E p \in P, d \in M :
        /\ users = Registered(p, d).users
        /\ medicines = Registered(p, d).medicines
        /\ reminders = Registered(p, d).g.rem
        /\ activity_logs = <<>>
        /\ health_scores = <<>>
        /\ hydration_logs = <<>>
        /\ caregiver_alerts = <<>>
        /\ today = 0
        /\ workers = Idle
        /\ last = [Answer("add_medicine", 1) EXCEPT
                       !.rid = 1, !.schedule = Registered(p, d).g.ret]

Acted(A) ==
    \E uid \in TrackSessions : \E rid \in ActionTargets(reminders, uid), a \in A :
        reminder_action(uid, rid, a)

\* the activity log has room for one more row
LogRoom(n) == Len(activity_logs) < n

\* Scoring: actions and glasses are logged, scores are computed
InitScore == InitTrack({Asha}, {Aspirin})

NextScore ==
    \/ LogRoom(MaxScoreLogs) /\ Acted(PostedActions)
    \/ LogRoom(MaxScoreLogs) /\ \E uid \in TrackSessions, n \in Glasses : log_hydration(uid, n)
    \/ \E uid \in TrackSessions : health_score(uid)
    \/ compute_daily_scores
    \/ \E d \in ClockSteps : advance_clock(d)

SpecScore == InitScore /\ [][NextScore]_vars

\* Escalation: reminders are skipped, the caregiver check runs on request and hourly
InitCare == InitTrack(Profiles, {Metformin})

NextCare ==
    \/ LogRoom(MaxCareLogs) /\ Acted({"completed", "skipped"})
    \/ \E uid \in TrackSessions : caregiver_check(uid)
    \/ check_reminder_compliance
    \/ \E d \in ClockSteps : advance_clock(d)

SpecCare == InitCare /\ [][NextCare]_vars

\* Adaptive rescheduling: reminders are skipped, suggestions are asked for
InitAdapt == InitTrack({Asha}, MedicineInputs)

NextAdapt ==
    \/ LogRoom(MaxLogs) /\ Acted({"completed", "skipped"})
    \/ \E uid \in TrackSessions : adaptive_suggestions(uid)
    \/ \E d \in ClockSteps : advance_clock(d)

SpecAdapt == InitAdapt /\ [][NextAdapt]_vars

\* Tuning: reminders are skipped, suggestions are asked for and applied as
\* returned, schedules are regenerated
InitTune == InitTrack({Asha}, {Aspirin})

NextTune ==
    \/ LogRoom(MaxLogs) /\ Acted({"completed", "skipped"})
    \/ \E uid \in TrackSessions : adaptive_suggestions(uid)
    \/ \E k \in DOMAIN last.suggestions :
          /\ Hour(last.suggestions[k].suggested_time) <= MaxHour
          /\ apply_suggestion(last.uid, last.suggestions[k].reminder_id,
                              last.suggestions[k].suggested_time)
    \/ \E uid \in TrackSessions : generate_reminders(uid)
    \/ \E d \in ClockSteps : advance_clock(d)

SpecTune == InitTune /\ [][NextTune]_vars

\* Prescription upload: texts are parsed and their medicines added
InitOcr == InitTrack({Asha}, {Metformin})

NextOcr ==
    \E text \in Texts : ocr_prescription(1, text)

SpecOcr == InitOcr /\ [][NextOcr]_vars

-----------------------------------------------------------------------------
(* Concurrent requests.  Flask serves every request on a thread of its own *)
(* and q() opens, commits and closes one connection per statement, so the  *)
(* statements of two generate_schedule calls interleave.  A worker takes   *)
(* one statement per step: get_user, get_medicines, get_reminders, one     *)
(* delete_reminder per row.  Its add_reminder loop is taken as one step:   *)
(* a coarser grain, so every behaviour here is a behaviour of the code.    *)

Workers == {1, 2}

IdleWorker == [pc |-> "idle", uid |-> 0, user |-> <<>>, meds |-> <<>>, existing |-> <<>>]

InitConc ==
    /\ users = Registered(Asha, Metformin).users
    /\ medicines = Registered(Asha, Metformin).medicines
    /\ reminders = Registered(Asha, Metformin).g.rem
    /\ activity_logs = <<>>
    /\ health_scores = <<>>
    /\ hydration_logs = <<>>
    /\ caregiver_alerts = <<>>
    /\ today = 0
    /\ workers = [w \in Workers |-> IdleWorker]
    /\ last = [Answer("add_medicine", 1) EXCEPT
                   !.rid = 1, !.schedule = Registered(Asha, Metformin).g.ret]

\* user = get_user(user_id); if not user: return []
w_get_user(w, uid) ==
    /\ workers[w].pc = "idle"
    /\ IF HasUser(users, uid)
       THEN /\ workers' = [workers EXCEPT ![w] =
                              [IdleWorker EXCEPT !.pc = "get_medicines", !.uid = uid,
                                                 !.user = <<users[uid]>>]]
            /\ UNCHANGED last
       ELSE /\ last' = Answer("generate_reminders", uid)
            /\ UNCHANGED workers
    /\ UNCHANGED <<tables, today>>

\* medicines = get_medicines(user_id)
w_get_medicines(w) ==
    /\ workers[w].pc = "get_medicines"
    /\ workers' = [workers EXCEPT ![w].pc = "get_reminders",
                                  ![w].meds = get_medicines(medicines, workers[w].uid)]
    /\ UNCHANGED <<tables, today, last>>

\* existing = get_reminders(user_id)
w_get_reminders(w) ==
    /\ workers[w].pc = "get_reminders"
    /\ workers' = [workers EXCEPT ![w].pc = "delete_reminder",
                                  ![w].existing = OrderByScheduled(reminders,
                                        get_reminders(reminders, workers[w].uid))]
    /\ UNCHANGED <<tables, today, last>>

\* for r in existing: delete_reminder(r["id"])
w_delete_reminder(w) ==
    /\ workers[w].pc = "delete_reminder"
    /\ workers[w].existing # <<>>
    /\ reminders' = db_delete_reminder(reminders, Head(workers[w].existing))
    /\ workers' = [workers EXCEPT ![w].existing = Tail(workers[w].existing)]
    /\ UNCHANGED <<users, medicines, activity_logs, health_scores, hydration_logs,
                   caregiver_alerts, today, last>>

\* the schedule is built from what the worker read; for item in unique: add_reminder(item)
w_add_reminders(w) ==
    LET me == workers[w]
        unique == Unique(Schedule(me.uid, me.user[1], me.meds))
    IN  /\ me.pc = "delete_reminder"
        /\ me.existing = <<>>
        /\ reminders' = SaveAll(reminders, unique)
        /\ workers' = [workers EXCEPT ![w] = IdleWorker]
        /\ last' = [Answer("generate_reminders", me.uid) EXCEPT !.schedule = unique]
        /\ UNCHANGED <<users, medicines, activity_logs, health_scores, hydration_logs,
                       caregiver_alerts, today>>

\* GET /api/reminders: a reader between two statements of the workers
api_get_reminders(uid) ==
    /\ last' = [Answer("get_reminders", uid) EXCEPT
                    !.flag = (get_reminders(reminders, uid) # {})]
    /\ UNCHANGED <<tables, today, workers>>

NextConc ==
    \/ \E w \in Workers, uid \in TrackSessions :
          Len(reminders) <= MaxRows /\ w_get_user(w, uid)
    \/ \E w \in Workers : w_get_medicines(w)
    \/ \E w \in Workers : w_get_reminders(w)
    \/ \E w \in Workers : w_delete_reminder(w)
    \/ \E w \in Workers : w_add_reminders(w)
    \/ \E uid \in TrackSessions : api_get_reminders(uid)

SpecConc == InitConc /\ [][NextConc]_vars

-----------------------------------------------------------------------------
(* Concurrent hydration logging.  db.log_hydration is two statements, each *)
(* on a connection of its own: the SELECT of today's row, then the UPDATE  *)
(* of that row or the INSERT of a new one; app.log_hydration then logs the *)
(* activity.  Every call takes one statement per step.                     *)

HydrationCalls == {1, 2, 3}

IdleCall == [pc |-> "idle", uid |-> 0, glasses |-> 0, ex |-> <<>>]

InitHydration ==
    /\ users = Registered(Asha, Metformin).users
    /\ medicines = Registered(Asha, Metformin).medicines
    /\ reminders = Registered(Asha, Metformin).g.rem
    /\ activity_logs = <<>>
    /\ health_scores = <<>>
    /\ hydration_logs = <<>>
    /\ caregiver_alerts = <<>>
    /\ today = 0
    /\ workers = [w \in HydrationCalls |-> IdleCall]
    /\ last = [Answer("add_medicine", 1) EXCEPT
                   !.rid = 1, !.schedule = Registered(Asha, Metformin).g.ret]

\* ex = q("SELECT id,glasses FROM hydration_logs WHERE user_id=? AND date=date('now')")
h_select(w, uid, glasses) ==
    LET rows == HydrationRows(hydration_logs, uid, today)
    IN  /\ workers[w].pc = "idle"
        /\ HasUser(users, uid)
        /\ workers' = [workers EXCEPT ![w] =
                          [pc |-> "write", uid |-> uid, glasses |-> glasses,
                           ex |-> IF rows # {}
                                  THEN <<[id |-> MinOf(rows),
                                          glasses |-> hydration_logs[MinOf(rows)].glasses]>>
                                  ELSE <<>>]]
        /\ UNCHANGED <<tables, today, last>>

\* if ex: UPDATE ... SET glasses = ex["glasses"] + glasses WHERE id = ex["id"]
\* else: INSERT INTO hydration_logs (user_id, glasses)
h_write(w) ==
    LET me == workers[w]
    IN  /\ me.pc = "write"
        /\ hydration_logs' =
              IF me.ex # <<>>
              THEN [i \in DOMAIN hydration_logs |->
                      IF i = me.ex[1].id
                      THEN [hydration_logs[i] EXCEPT !.glasses = me.ex[1].glasses + me.glasses]
                      ELSE hydration_logs[i]]
              ELSE Append(hydration_logs,
                          [user_id |-> me.uid, glasses |-> me.glasses, date |-> today])
        /\ workers' = [workers EXCEPT ![w].pc = "log_activity"]
        /\ UNCHANGED <<users, medicines, reminders, activity_logs, health_scores,
                       caregiver_alerts, today, last>>

\* db.log_activity(uid, 0, "water", "completed"); return ok(...)
h_log_activity(w) ==
    /\ workers[w].pc = "log_activity"
    /\ activity_logs' = db_log_activity(activity_logs, workers[w].uid, 0, "water",
                                        "completed", today)
    /\ workers' = [workers EXCEPT ![w].pc = "done"]
    /\ last' = Answer("log_hydration", workers[w].uid)
    /\ UNCHANGED <<users, medicines, reminders, health_scores, hydration_logs,
                   caregiver_alerts, today>>

NextHydration ==
    \/ \E w \in HydrationCalls, n \in Glasses : h_select(w, 1, n)
    \/ \E w \in HydrationCalls : h_write(w)
    \/ \E w \in HydrationCalls : h_log_activity(w)

SpecHydration == InitHydration /\ [][NextHydration]_vars

-----------------------------------------------------------------------------
(* Properties of the reminder table *)

\* the requests that end in a call of generate_schedule
RegenOps == {"create_user", "add_medicine", "delete_medicine", "generate_reminders"}

\* the events of a user's active reminders, in id order
ActiveEvents(rem, uid) ==
    LET act == SelectSeq(rem, LAMBDA r : r.user_id = uid /\ r.active)
    IN  [k \in DOMAIN act |-> Event(act[k])]

\* no two active reminders of one user carry the same (scheduled, type)
PairsUnique(rem) ==
    \A i, j \in DOMAIN rem :
        (/\ i # j
         /\ rem[i].active /\ rem[j].active
         /\ rem[i].user_id = rem[j].user_id)
        => <<rem[i].scheduled, rem[i].type>> # <<rem[j].scheduled, rem[j].type>>

\* C1: in every reachable state no two active reminders of the same user
\* share the pair (scheduled time, type).
C1_ActivePairsUnique == PairsUnique(reminders)

\* C3: when generate_schedule runs to completion for an existing user, every
\* reminder of that user that was active before the call is inactive after
\* it, and the user's active reminders are exactly the events of the list
\* the call returned.
C3_FullReplace ==
    [][ (last'.op \in RegenOps /\ HasUser(users', last'.uid)) =>
            /\ \A i \in get_reminders(reminders, last'.uid) : ~reminders'[i].active
            /\ ActiveEvents(reminders', last'.uid) = last'.schedule ]_vars

\* a schedule was replaced: the user has invalidated rows and a fresh list
C3_Replaced ==
    /\ last.op \in RegenOps
    /\ HasUser(users, last.uid)
    /\ last.schedule # <<>>
    /\ \E i \in DOMAIN reminders :
          reminders[i].user_id = last.uid /\ ~reminders[i].active

\* the user whose data a request changed
Affected ==
    IF last.op = "delete_medicine" THEN medicines[last.rid].user_id ELSE last.uid

\* C4: once a medicine add, a medicine delete or a profile edit has returned,
\* the affected user's active reminders are what generate_schedule yields
\* for the user's current profile and current active medicines.
C4_RegeneratedAfterEdit ==
    (/\ last.op \in {"add_medicine", "delete_medicine", "update_user"}
     /\ HasUser(users, Affected))
    => ActiveEvents(reminders, Affected) = ScheduleOf(users, medicines, Affected)

\* the ids of a user's medicines that are not soft-deleted
ActiveMeds(uid) ==
    {m \in DOMAIN medicines : medicines[m].user_id = uid /\ medicines[m].active}

RECURSIVE SumOver(_, _)
SumOver(S, f) ==
    IF S = {} THEN 0
    ELSE LET x == CHOOSE y \in S : TRUE
         IN  f[x] + SumOver(S \ {x}, f)

\* the medicine events emitted for the medicines the lookup of user uid returns
Emitted(uid) ==
    MedicineEvents(uid, users[uid].language, get_medicines(medicines, uid))

\* C9: generate_schedule emits one medicine event for every time slot of
\* every active medicine and none for a soft-deleted one; after a
\* regeneration the user's active medicine reminders are exactly one per
\* distinct slot of the active medicines, and a slot several medicines share
\* carries the medicine with the lowest id.
C9_MedicineSlots ==
    /\ \A uid \in DOMAIN users :
          /\ Len(Emitted(uid)) =
                SumOver(ActiveMeds(uid), [m \in DOMAIN medicines |-> Len(medicines[m].times)])
          /\ \A k \in DOMAIN Emitted(uid) :
                \E m \in ActiveMeds(uid) :
                   /\ Emitted(uid)[k].title = <<"Medicine", medicines[m].name>>
                   /\ Emitted(uid)[k].scheduled \in Range(medicines[m].times)
    /\ (last.op \in RegenOps /\ HasUser(users, last.uid)) =>
          LET uid == last.uid
              med == {i \in get_reminders(reminders, uid) : reminders[i].type = "medicine"}
              slots == UNION {Range(medicines[m].times) : m \in ActiveMeds(uid)}
          IN  /\ {reminders[i].scheduled : i \in med} = slots
              /\ Cardinality(med) = Cardinality(slots)
              /\ \A i \in med :
                    LET sharing == {m \in ActiveMeds(uid) :
                                       reminders[i].scheduled \in Range(medicines[m].times)}
                    IN  reminders[i].title = <<"Medicine", medicines[MinOf(sharing)].name>>

\* a regeneration for a user with two active medicines that share a slot
C9_SharedSlot ==
    /\ last.op \in RegenOps
    /\ HasUser(users, last.uid)
    /\ \E m, n \in ActiveMeds(last.uid) :
          m # n /\ Range(medicines[m].times) \cap Range(medicines[n].times) # {}

\* C10: generate_schedule for a user id with no stored profile returns the
\* empty list and changes nothing: no reminder is invalidated, none inserted.
C10_NoProfileNoChange ==
    [][ (last'.op \in {"generate_reminders", "delete_medicine"}
         /\ ~HasUser(users', last'.uid)) =>
            /\ last'.schedule = <<>>
            /\ reminders' = reminders ]_vars

\* a regeneration was asked for an id without profile while reminders are active
C10_Unregistered ==
    /\ last.op = "generate_reminders"
    /\ ~HasUser(users, last.uid)
    /\ \E i \in DOMAIN reminders : reminders[i].active

-----------------------------------------------------------------------------
(* Properties of concurrent regeneration *)

\* once both calls have returned, the active set holds no pair twice
NoOverlap ==
    (\A w \in Workers : workers[w].pc = "idle") => PairsUnique(reminders)

\* a reader of a registered user's reminders never finds the active set empty
NoGap ==
    (last.op = "get_reminders" /\ HasUser(users, last.uid)) => last.flag

\* C2: two concurrent generate_schedule calls for one user cannot both
\* insert overlapping active reminder sets, and no get_reminders between
\* their steps observes an empty active set for that user.
C2_NoOverlapNoGap == NoOverlap /\ NoGap

-----------------------------------------------------------------------------
(* Properties of adaptive rescheduling *)

ValidClock(t) == Hour(t) \in 0..23 /\ Minute(t) \in 0..59

\* HH:MM plus 30 minutes on the 24-hour clock
Plus30(t) ==
    LET m == Hour(t) * 60 + Minute(t) + 30
    IN  Fmt((m \div 60) % 24, m % 60)

\* C5: run_adaptive_learning emits no suggestion for an active reminder with
\* fewer than 3 skips in the trailing 7 days and exactly one for a reminder
\* with 3 or more; the suggested time is the current time plus 30 minutes,
\* the hour taken modulo 24, and always a valid 24-hour HH:MM.
C5_Suggestions ==
    last.op = "adaptive_suggestions" =>
        /\ \A rid \in get_reminders(reminders, last.uid) :
              LET skips == Cardinality({i \in DOMAIN activity_logs :
                               /\ activity_logs[i].user_id = last.uid
                               /\ activity_logs[i].reminder_id = rid
                               /\ activity_logs[i].action = "skipped"
                               /\ activity_logs[i].logged_at >= today - 7})
                  given == {k \in DOMAIN last.suggestions :
                               last.suggestions[k].reminder_id = rid}
              IN  Cardinality(given) = IF skips >= 3 THEN 1 ELSE 0
        /\ \A k \in DOMAIN last.suggestions :
              /\ last.suggestions[k].suggested_time = Plus30(last.suggestions[k].current_time)
              /\ ValidClock(last.suggestions[k].suggested_time)

-----------------------------------------------------------------------------
(* Properties of caregiver escalation *)

\* at least 3 of the user's logs of today are skipped medicine reminders and
\* the profile names a caregiver
Escalates(logs, uid) ==
    /\ Cardinality({i \in DOMAIN logs :
           /\ logs[i].user_id = uid
           /\ logs[i].date = today
           /\ logs[i].type = "medicine"
           /\ logs[i].action = "skipped"}) >= 3
    /\ HasUser(users, uid)
    /\ users[uid].caregiver # ""

\* C6: check_caregiver_alert returns true and appends exactly one alert if
\* and only if today's logs of the user hold at least 3 skipped medicine
\* entries and the profile has a non-empty caregiver contact; otherwise it
\* returns false and leaves the alert store unchanged.
C6_CaregiverAlert ==
    [][ (\/ last'.op = "check_caregiver_alert"
         \/ last'.op = "reminder_action" /\ last'.ok) =>
            IF Escalates(activity_logs', last'.uid)
            THEN /\ last'.flag
                 /\ Len(caregiver_alerts') = Len(caregiver_alerts) + 1
                 /\ SubSeq(caregiver_alerts', 1, Len(caregiver_alerts)) = caregiver_alerts
                 /\ caregiver_alerts'[Len(caregiver_alerts')].user_id = last'.uid
            ELSE /\ ~last'.flag
                 /\ caregiver_alerts' = caregiver_alerts ]_vars

\* the check escalated: the third skip of the day is logged and an alert stands
C6_Escalated ==
    /\ last.op = "check_caregiver_alert"
    /\ last.flag
    /\ caregiver_alerts # <<>>
    /\ Escalates(activity_logs, last.uid)

-----------------------------------------------------------------------------
(* Properties of the health score *)

\* C7: the score calculate_health_score returns and stores lies in [0, 100]
\* (0..1000 in tenths).
C7_ScoreInRange ==
    /\ last.op = "health_score" => last.score.score \in 0..1000
    /\ \A k \in DOMAIN health_scores : health_scores[k].score \in 0..1000

\* C8: calculate_health_score for a user with zero active reminders returns
\* score 0, grade N/A and an empty breakdown and leaves the score store
\* unchanged.
C8_NoRemindersNoScore ==
    [][ (last'.op = "health_score" /\ get_reminders(reminders, last'.uid) = {}) =>
            /\ last'.score = [score |-> 0, grade |-> "N/A", breakdown |-> {}]
            /\ health_scores' = health_scores ]_vars

\* a score was asked for a user without active reminders while the store
\* holds records
C8_AskedWithoutReminders ==
    /\ last.op = "health_score"
    /\ get_reminders(reminders, last.uid) = {}
    /\ health_scores # <<>>

-----------------------------------------------------------------------------
(* Properties of user scopes *)

\* the rows of a table that belong to users other than uid
RowsOfOthers(table, uid) == SelectSeq(table, LAMBDA r : r.user_id # uid)

\* C11: a request made on behalf of one user never changes the reminders,
\* medicines, logs, scores or alerts that belong to a different user.
C11_OtherUsersUntouched ==
    [][ (last'.op \in RegenOps \cup {"apply_suggestion", "reminder_action", "health_score",
                                     "check_caregiver_alert"}) =>
            /\ RowsOfOthers(medicines', last'.uid) = RowsOfOthers(medicines, last'.uid)
            /\ RowsOfOthers(reminders', last'.uid) = RowsOfOthers(reminders, last'.uid)
            /\ RowsOfOthers(activity_logs', last'.uid) = RowsOfOthers(activity_logs, last'.uid)
            /\ RowsOfOthers(health_scores', last'.uid) = RowsOfOthers(health_scores, last'.uid)
            /\ RowsOfOthers(caregiver_alerts', last'.uid)
                  = RowsOfOthers(caregiver_alerts, last'.uid) ]_vars

-----------------------------------------------------------------------------
(* Properties of the activity log *)

\* the value a breakdown holds under a key
Field(breakdown, key) == (CHOOSE p \in breakdown : p[1] = key)[2]

\* the completed, skipped and snoozed counts of the breakdown last returned
\* add up to the number of the user's logs of the day
CountsAddUp ==
    (last.op = "health_score" /\ last.score.breakdown # {}) =>
          Field(last.score.breakdown, "completed") + Field(last.score.breakdown, "skipped")
             + Field(last.score.breakdown, "snoozed")
          = Len(SelectSeq(activity_logs,
                          LAMBDA l : l.user_id = last.uid /\ l.date = today))

\* C12: every activity log record has an action that is one of completed,
\* skipped or snoozed, so the completed, skipped and snoozed counts of a
\* score breakdown add up to the number of the user's logs of the day.
C12_ActionsInEnum ==
    /\ \A i \in DOMAIN activity_logs :
          activity_logs[i].action \in {"completed", "skipped", "snoozed"}
    /\ CountsAddUp

-----------------------------------------------------------------------------
(* Properties of the score store *)

\* the records of a score store other than the one of (uid, day)
OtherScores(scores, uid, day) ==
    {scores[k] : k \in {j \in DOMAIN scores :
                           ~(scores[j].user_id = uid /\ scores[j].date = day)}}

\* C13: the score store holds at most one record per (user, day), and that
\* record carries the score and breakdown of the most recent computation
\* that had at least one active reminder: such a computation leaves exactly
\* its own result under (user, today) and every other record as it was, and
\* no other request writes the store.
C13_OneScorePerDay ==
    [][ /\ \A i, j \in DOMAIN health_scores' :
              (/\ health_scores'[i].user_id = health_scores'[j].user_id
               /\ health_scores'[i].date = health_scores'[j].date) => i = j
        /\ (last'.op = "health_score" /\ get_reminders(reminders, last'.uid) # {}) =>
              /\ \E k \in DOMAIN health_scores' :
                    health_scores'[k] = [user_id |-> last'.uid, date |-> today,
                                         score |-> last'.score.score,
                                         breakdown |-> last'.score.breakdown]
              /\ OtherScores(health_scores', last'.uid, today)
                    = OtherScores(health_scores, last'.uid, today)
        /\ last'.op \notin {"health_score", "compute_daily_scores"} =>
              health_scores' = health_scores ]_vars

\* a score was computed on a second day after the day's logs had changed:
\* the store holds the records of both days
C13_TwoDays ==
    /\ last.op = "health_score"
    /\ \E i, j \in DOMAIN health_scores :
          /\ health_scores[i].user_id = last.uid /\ health_scores[j].user_id = last.uid
          /\ health_scores[i].date < health_scores[j].date
          /\ health_scores[j].date = today
          /\ health_scores[j].score = last.score.score
          /\ health_scores[j].score # health_scores[i].score

-----------------------------------------------------------------------------
(* Properties of concurrent hydration logging *)

\* no call is between its read and its write
NoCallInFlight == \A w \in HydrationCalls : workers[w].pc # "write"

\* the glasses passed to the calls that have written
GlassesLogged ==
    SumOver({w \in HydrationCalls : workers[w].pc \in {"log_activity", "done"}},
            [w \in HydrationCalls |-> workers[w].glasses])

\* at most one hydration record for (user, day)
OneHydrationRow ==
    NoCallInFlight => Cardinality(HydrationRows(hydration_logs, 1, today)) <= 1

\* get_hydration_today returns the sum of the glasses passed to the calls
HydrationIsSum ==
    NoCallInFlight => get_hydration_today(hydration_logs, 1, today) = GlassesLogged

\* C14: after any set of log_hydration calls for one user on one day, also
\* calls whose read and write interleave, there is at most one hydration
\* record for (user, day) and get_hydration_today returns the sum of all
\* glasses passed to those calls.
C14_HydrationAdditive == OneHydrationRow /\ HydrationIsSum

-----------------------------------------------------------------------------
(* Properties of the prescription parser *)

\* the lines of a text that mention a known medicine
LinesWithKnown(text) ==
    {i \in DOMAIN text : \E k \in DOMAIN known_medicines : Mentions(text[i], known_medicines[k])}

\* C15: parse_prescription_text returns at most 10 candidates; the fallback
\* pass runs only when the known-name pass produced no candidate (a text with
\* known names yields one candidate per such line, known names only), and
\* whenever the fallback pass runs the result has at most 5 candidates.
C15_ParserCaps ==
    last.op = "ocr_prescription" =>
        /\ Len(last.medicines) <= 10
        /\ LinesWithKnown(last.text) # {} =>
              /\ Len(last.medicines) = Min(Cardinality(LinesWithKnown(last.text)), 10)
              /\ \A i \in DOMAIN last.medicines :
                    last.medicines[i].name \in Range(known_medicines)
        /\ LinesWithKnown(last.text) = {} => Len(last.medicines) <= 5

\* a text with more than 10 lines of known medicines was parsed, and capped
C15_ElevenKnown ==
    /\ last.op = "ocr_prescription"
    /\ Cardinality(LinesWithKnown(last.text)) > 10
    /\ Len(last.medicines) = 10

\* a text without known names but with more than 5 capitalised long words
\* was parsed by the fallback pass, which stopped at 5
FallbackStopped ==
    /\ last.op = "ocr_prescription"
    /\ LinesWithKnown(last.text) = {}
    /\ Len(last.text) >= 3
    /\ Len(last.medicines) = 5

-----------------------------------------------------------------------------
(* Properties of the sleep reminder *)

\* the active sleep reminders of a user
SleepReminders(uid) ==
    {i \in get_reminders(reminders, uid) : reminders[i].type = "sleep"}

\* C17: for a profile sleep time HH:MM generate_schedule schedules the sleep
\* reminder at hour HH and minute max(0, MM-30): the hour is never
\* decremented, so a sleep time with MM < 30 yields HH:00.
C17_SleepClamp ==
    (last.op \in RegenOps /\ HasUser(users, last.uid)) =>
        LET t == users[last.uid].sleep_time
        IN  /\ Cardinality(SleepReminders(last.uid)) = 1
            /\ \A i \in SleepReminders(last.uid) :
                  /\ reminders[i].scheduled \div 100 = t \div 100
                  /\ reminders[i].scheduled % 100 =
                        IF t % 100 < 30 THEN 0 ELSE (t % 100) - 30

\* a schedule was generated for a sleep time with 0 < MM < 30: the reminder
\* is at HH:00, less than 30 minutes before the sleep time
C17_Clamped ==
    /\ last.op \in RegenOps
    /\ HasUser(users, last.uid)
    /\ users[last.uid].sleep_time % 100 \in 1..29
    /\ \E i \in SleepReminders(last.uid) :
          reminders[i].scheduled = (users[last.uid].sleep_time \div 100) * 100

-----------------------------------------------------------------------------
(* Properties of tuning *)

\* the skipped logs of a user's reminder in the 7 days up to now
SkipsOf(uid, rid) ==
    Cardinality({i \in DOMAIN activity_logs :
        /\ activity_logs[i].user_id = uid
        /\ activity_logs[i].reminder_id = rid
        /\ activity_logs[i].action = "skipped"
        /\ activity_logs[i].logged_at >= today - 7})

\* the time slots of the medicines of a user that are not soft-deleted
SlotsOf(uid) == UNION {Range(medicines[m].times) : m \in ActiveMeds(uid)}

\* minutes since 00:00 of a clock string
ToMinutes(t) == (t \div 100) * 60 + (t % 100)

\* C16: run_adaptive_learning only proposes, it leaves every store
\* unchanged; a reminder's scheduled time changes only through the apply
\* action, which rewrites the time of that one reminder in place: no
\* reminder is invalidated and none is created.
C16_ProposeThenApply ==
    [][ /\ last'.op = "adaptive_suggestions" => tables' = tables
        /\ \A i \in DOMAIN reminders :
              reminders'[i].scheduled # reminders[i].scheduled =>
                 last'.op = "apply_suggestion" /\ i = last'.rid
        /\ last'.op = "apply_suggestion" =>
              /\ DOMAIN reminders' = DOMAIN reminders
              /\ \A i \in DOMAIN reminders :
                    reminders'[i] = [reminders[i] EXCEPT !.scheduled = reminders'[i].scheduled]
              /\ reminders'[last'.rid].scheduled # reminders[last'.rid].scheduled ]_vars

\* a suggestion was applied: an active medicine reminder stands at a time
\* that is no slot of a medicine
C16_Applied ==
    /\ last.op = "apply_suggestion"
    /\ last.rid \in get_reminders(reminders, last.uid)
    /\ reminders[last.rid].type = "medicine"
    /\ reminders[last.rid].scheduled \notin SlotsOf(last.uid)

\* C18: right after generate_schedule has completed for a user,
\* run_adaptive_learning for that user returns no suggestion, however many
\* skips were logged before: the new reminders have fresh ids.
C18_FreshIdsNoSuggestions ==
    [][ (/\ last.op \in RegenOps
         /\ last'.op = "adaptive_suggestions"
         /\ last'.uid = last.uid) => last'.suggestions = <<>> ]_vars

\* suggestions were asked for and none came, though an invalidated reminder
\* of the user has 3 skips in the window and no active one has a log
C18_SkipsLeftBehind ==
    /\ last.op = "adaptive_suggestions"
    /\ last.suggestions = <<>>
    /\ \E i \in DOMAIN reminders :
          /\ reminders[i].user_id = last.uid
          /\ ~reminders[i].active
          /\ SkipsOf(last.uid, i) >= 3
    /\ \A i \in get_reminders(reminders, last.uid) : SkipsOf(last.uid, i) = 0

\* C20: applying a suggestion does not clear the skip history: when
\* apply_suggestion has rewritten the time of a reminder with at least 3
\* skips in the last 7 days, the next run_adaptive_learning call again
\* returns a suggestion for the same reminder id, 30 minutes after the
\* newly applied time.  (What is applied here is a suggestion just
\* returned, so the reminder had its 3 skips when the time was rewritten.)
C20_SuggestedAgain ==
    [][ (/\ last.op = "apply_suggestion"
         /\ last'.op = "adaptive_suggestions"
         /\ last'.uid = last.uid
         /\ last.rid \in get_reminders(reminders, last.uid)) =>
            \E k \in DOMAIN last'.suggestions :
               /\ last'.suggestions[k].reminder_id = last.rid
               /\ last'.suggestions[k].current_time = reminders[last.rid].scheduled
               /\ ToMinutes(last'.suggestions[k].suggested_time)
                     = ToMinutes(reminders[last.rid].scheduled) + 30 ]_vars

\* a suggestion is returned for a medicine reminder that stands at an
\* applied time, no slot of a medicine
C20_SecondSuggestion ==
    /\ last.op = "adaptive_suggestions"
    /\ \E k \in DOMAIN last.suggestions :
          /\ reminders[last.suggestions[k].reminder_id].type = "medicine"
          /\ last.suggestions[k].current_time \notin SlotsOf(last.uid)
          /\ last.suggestions[k].current_time
                = reminders[last.suggestions[k].reminder_id].scheduled
          /\ SkipsOf(last.uid, last.suggestions[k].reminder_id) >= 3

-----------------------------------------------------------------------------
(* Properties of repeated escalation *)

\* the checks a request makes that find the user with 3 skipped medicine
\* logs of the day and a caregiver contact
EscalatingChecks ==
    IF last'.op = "check_caregiver_alert" \/ (last'.op = "reminder_action" /\ last'.ok)
    THEN IF Escalates(activity_logs', last'.uid) THEN 1 ELSE 0
    ELSE IF last'.op = "check_reminder_compliance"
    THEN Cardinality({u \in DOMAIN users : Escalates(activity_logs', u)})
    ELSE 0

\* C19: once a user with a caregiver contact has 3 skipped medicine logs on
\* a day, every later check_caregiver_alert call of that day, from a
\* reminder action, the hourly sweep or a direct call, returns true and
\* appends a further alert: the alerts appended are as many as the checks
\* made at or after the third skip, repeats are not suppressed.  (A request
\* for a reminder that is not an active one of the user is answered 404
\* before anything is logged or checked.)
C19_RepeatedAlerts ==
    [][ /\ Len(caregiver_alerts') = Len(caregiver_alerts) + EscalatingChecks
        /\ SubSeq(caregiver_alerts', 1, Len(caregiver_alerts)) = caregiver_alerts
        /\ (/\ last'.op \in {"check_caregiver_alert", "reminder_action"}
            /\ last'.ok
            /\ Escalates(activity_logs, last'.uid)
            /\ today' = today) =>
               /\ last'.flag
               /\ caregiver_alerts'[Len(caregiver_alerts')].user_id = last'.uid
               /\ caregiver_alerts'[Len(caregiver_alerts')].message.date = today ]_vars

\* two alerts stand for one user and one day
C19_TwoAlertsOneDay ==
    \E i, j \in DOMAIN caregiver_alerts :
        /\ i < j
        /\ caregiver_alerts[i].user_id = caregiver_alerts[j].user_id
        /\ caregiver_alerts[i].message.date = caregiver_alerts[j].message.date

=============================================================================
